---- MODULE Spec2Model ----
(***************************************************************************)
(* NexGen Cost Intelligence Dashboard (src/app.py).                        *)
(*                                                                         *)
(* The script loads five CSV tables, merges them on Order_ID, derives the  *)
(* cost metrics, drops incomplete rows (load_data, cached by               *)
(* st.cache_data), and on every run of the script filters the cached       *)
(* master table by the sidebar widgets and computes KPIs and chart tables. *)
(*                                                                         *)
(* Representation of pandas values:                                        *)
(*   numeric cell      <<"num", n>>, <<"nan", 0>> (NaN / pd.NA / NaT),     *)
(*                     <<"inf", 0>> (+inf); amounts are whole INR,         *)
(*                     rounded ratios are kept in hundredths               *)
(*   text cell (Route) a sequence of one-character strings, <<>> = NaN     *)
(*                     (read_csv reads a blank cell as NaN)                *)
(*   category cell     a string, "NaN" = missing                           *)
(*   DataFrame         a set of records (rows); the charts and KPIs are    *)
(*                     insensitive to row order                            *)
(*   mean              <<"rat", sum, count>>, <<"nan", 0>>, <<"inf", 0>>   *)
(* Input amounts are non-negative, dates are calendar dates (no time of    *)
(* day) and every table has at most one row per Order_ID, as the data      *)
(* model of the inputs states.  Division and round(2) are modelled on       *)
(* numeric columns (round half to even); no property below depends on the  *)
(* rounded digits.                                                         *)
(***************************************************************************)
EXTENDS Integers, Sequences, FiniteSets, TLC

\* ------------------------------------------------------------------ bounds
\* number of orders in the small input fixtures
MaxOrders == 2
\* largest number of distinct routes in the route-ranking fixtures
MaxRoutes == 17

\* ------------------------------------------------------------ pandas cells
Num(n) == <<"num", n>>
NaN == <<"nan", 0>>
Inf == <<"inf", 0>>
NoText == <<>>
NoCat == "NaN"

\* Series.isna on a numeric or text cell
isna(c) == c = NaN \/ c = NoText
IsNum(c) == c[1] = "num"

\* Series.fillna(other): the other column's cell where this one is missing
fillna_swapped(cell, other) == IF isna(other) THEN cell ELSE other
fillna(cell, other) == IF isna(cell) THEN other ELSE cell

\* Series.replace(0, pd.NA)
replace_zero_noop(cell) == cell
replace_zero(cell) == IF cell = Num(0) THEN NaN ELSE cell

\* round-half-even of the non-negative quotient n / d, d > 0
RoundDiv(n, d) ==
    LET q == n \div d
        r == n % d
    IN  IF 2 * r < d THEN q
        ELSE IF 2 * r > d THEN q + 1
        ELSE IF q % 2 = 0 THEN q ELSE q + 1

\* (a / b).round(2) on float columns, result in hundredths:
\* NaN propagates, x / 0 is inf for x > 0 and NaN for x = 0
div_round2(a, b) ==
    IF isna(a) \/ isna(b) THEN NaN
    ELSE IF b[2] = 0 THEN (IF a[2] = 0 THEN NaN ELSE Inf)
    ELSE Num(RoundDiv(100 * a[2], b[2]))

\* pd.to_datetime of a calendar date (day number): midnight of that day, in hours
to_datetime(cell) == IF isna(cell) THEN NaN ELSE Num(cell[2] * 24)
\* Timestamp.date(): the calendar day of a timestamp
date(ts) == ts[2] \div 24

\* --------------------------------------------------------------- text cells
UpperCase == <<"A","B","C","D","E","F","G","H","I","J","K","L","M",
               "N","O","P","Q","R","S","T","U","V","W","X","Y","Z">>
LowerCase == <<"a","b","c","d","e","f","g","h","i","j","k","l","m",
               "n","o","p","q","r","s","t","u","v","w","x","y","z">>

lower_char(c) ==
    IF \E i \in 1..Len(UpperCase) : UpperCase[i] = c
    THEN LowerCase[CHOOSE i \in 1..Len(UpperCase) : UpperCase[i] = c]
    ELSE c
lower(s) == [i \in 1..Len(s) |-> lower_char(s[i])]

RECURSIVE join(_, _)
join(sep, parts) ==
    IF parts = <<>> THEN <<>>
    ELSE IF Len(parts) = 1 THEN parts[1]
    ELSE parts[1] \o sep \o join(sep, Tail(parts))

international_cities ==
    << <<"S","i","n","g","a","p","o","r","e">>,
       <<"D","u","b","a","i">>,
       <<"H","o","n","g"," ","K","o","n","g">>,
       <<"B","a","n","g","k","o","k">> >>
pattern == join(<<"|">>, international_cities)

\* the alternatives of a regular expression made of literals and "|"
RECURSIVE alternatives(_)
alternatives(re) ==
    IF \A i \in 1..Len(re) : re[i] # "|" THEN {re}
    ELSE LET k == CHOOSE i \in 1..Len(re) :
                     re[i] = "|" /\ \A j \in 1..(i - 1) : re[j] # "|"
         IN  {SubSeq(re, 1, k - 1)} \cup alternatives(SubSeq(re, k + 1, Len(re)))

\* re.search of a literal: the literal occurs somewhere in the text
search(lit, text) ==
    \E i \in 1..(Len(text) - Len(lit) + 1) : SubSeq(text, i, i + Len(lit) - 1) = lit

\* Series.str.contains(pat, case=..., na=False) on one cell
contains_case_sensitive(text, pat, na) ==
    IF text = NoText THEN na
    ELSE \E alt \in alternatives(pat) : search(alt, text)
str_contains(text, pat, na) ==
    IF text = NoText THEN na
    ELSE \E alt \in alternatives(lower(pat)) : search(alt, lower(text))

\* ----------------------------------------------------------- source files
\* load_data reads the files in this order (pd.read_csv calls)
read_order == <<"orders", "delivery", "routes", "costs", "feedback">>
file_name(key) ==
    CASE key = "orders" -> "orders.csv"
      [] key = "delivery" -> "delivery_performance.csv"
      [] key = "routes" -> "routes_distance.csv"
      [] key = "costs" -> "cost_breakdown.csv"
      [] key = "feedback" -> "customer_feedback.csv"

cost_components ==
    <<"Fuel_Cost", "Labor_Cost", "Vehicle_Maintenance", "Insurance",
      "Packaging_Cost", "Technology_Platform_Fee", "Other_Overhead">>

\* DataFrame[cols].sum(axis=1) on one row: NaN cells are skipped
RECURSIVE row_sum(_, _)
row_sum(row, cols) ==
    IF cols = <<>> THEN 0
    ELSE (IF isna(row[Head(cols)]) THEN 0 ELSE row[Head(cols)][2])
         + row_sum(row, Tail(cols))

\* the missing value pandas fills into a column of a left merge
na_of(col) ==
    IF col = "Route" THEN NoText
    ELSE IF col \in {"Customer_Segment", "Product_Category", "Carrier"} THEN NoCat
    ELSE NaN

\* pd.merge(left, right[["Order_ID"] + cols], on="Order_ID", how="left")
merge(left, right, cols) ==
    UNION { LET hits == {r \in right : r.Order_ID = l.Order_ID}
            IN  IF hits = {} THEN {l @@ [c \in cols |-> na_of(c)]}
                ELSE {l @@ [c \in cols |-> r[c]] : r \in hits}
          : l \in left }

\* master_df['Route_Type'] of one row
Route_Type(route) ==
    IF str_contains(route, pattern, FALSE) THEN "International" ELSE "Domestic"

\* the derived columns of one merged row
derive(row) ==
    LET distance == replace_zero(row.Distance_KM)
        total == row.Total_Cost
    IN  [row EXCEPT !.Distance_KM = distance, !.Order_Date = to_datetime(@)]
        @@ [Final_Rating |-> fillna(row.Rating, row.Customer_Rating),
            Cost_Per_KM |-> div_round2(total, distance),
            Cost_Per_Order |-> row.Total_Cost,
            Cost_Efficiency_Ratio |-> div_round2(row.Order_Value_INR, total),
            Route_Type |-> Route_Type(row.Route)]

dropna_subset_short == {"Cost_Per_KM", "Cost_Efficiency_Ratio", "Route", "Order_Date"}
dropna_subset ==
    {"Cost_Per_KM", "Cost_Efficiency_Ratio", "Final_Rating", "Route", "Order_Date"}

\* DataFrame.dropna(subset=...)
dropna(df, subset) == {r \in df : \A c \in subset : ~isna(r[c])}

\* the merged table before the derived columns are added
merged(orders_df, delivery_df, routes_df, costs_df, feedback_df) ==
    LET costs == {r @@ [Total_Cost |-> Num(row_sum(r, cost_components))] : r \in costs_df}
        m1 == merge(costs, routes_df, {"Route", "Distance_KM"})
        m2 == merge(m1, orders_df, {"Order_Date", "Customer_Segment",
                                    "Product_Category", "Order_Value_INR"})
        m3 == merge(m2, delivery_df, {"Carrier", "Customer_Rating"})
    IN  merge(m3, feedback_df, {"Rating"})

\* the body of load_data after the files were read
build_master(orders_df, delivery_df, routes_df, costs_df, feedback_df) ==
    dropna({derive(r) : r \in merged(orders_df, delivery_df, routes_df,
                                     costs_df, feedback_df)},
           dropna_subset)

Unreadable(src) == {i \in 1..Len(read_order) : src[read_order[i]].status # "ok"}
FirstUnreadable(src) ==
    read_order[CHOOSE i \in Unreadable(src) : \A j \in Unreadable(src) : i <= j]

\* one execution of the body of load_data:
\*   raised   the exception that leaves the function ("none" when it returns)
\*   notices  the st.error calls made inside it
\*   df       the returned DataFrame
load_data(src) ==
    IF Unreadable(src) = {}
    THEN [raised |-> "none", notices |-> <<>>,
          df |-> build_master(src.orders.rows, src.delivery.rows, src.routes.rows,
                              src.costs.rows, src.feedback.rows)]
    ELSE LET f == FirstUnreadable(src)
         IN  IF src[f].status = "missing"
             THEN [raised |-> "none",
                   notices |-> << [kind |-> "error", filename |-> file_name(f)] >>,
                   df |-> {}]
             ELSE [raised |-> "ParserError", notices |-> <<>>, df |-> {}]

\* ------------------------------------------------------------ filter engine
\* df[(Order_Date >= start) & (Order_Date <= end) & Customer_Segment.isin(...) & ...]
df_filter_end_exclusive(df, start_date, end_date, seg, rt, prod) ==
    {r \in df : /\ r.Order_Date[2] >= start_date[2]
                /\ r.Order_Date[2] < end_date[2]
                /\ r.Customer_Segment \in seg
                /\ r.Route_Type \in rt
                /\ r.Product_Category \in prod}
df_filter(df, start_date, end_date, seg, rt, prod) ==
    {r \in df : /\ r.Order_Date[2] >= start_date[2]
                /\ r.Order_Date[2] <= end_date[2]
                /\ r.Customer_Segment \in seg
                /\ r.Route_Type \in rt
                /\ r.Product_Category \in prod}

\* Series.unique() of a column
unique(df, col) == {r[col] : r \in df}

Min(S) == CHOOSE x \in S : \A y \in S : x <= y
Max(S) == CHOOSE x \in S : \A y \in S : x >= y
min_date(df) == Min({date(r.Order_Date) : r \in df})
max_date(df) == Max({date(r.Order_Date) : r \in df})

\* ------------------------------------------------------------- aggregation
RECURSIVE col_sum(_, _)
\* Series.sum() of a column of finite cells
col_sum(df, col) ==
    IF df = {} THEN 0
    ELSE LET r == CHOOSE x \in df : TRUE
         IN  (IF IsNum(r[col]) THEN r[col][2] ELSE 0) + col_sum(df \ {r}, col)

\* Series.mean(): NaN on an empty column, inf as soon as one cell is inf
mean(df, col) ==
    IF df = {} THEN NaN
    ELSE IF \E r \in df : r[col] = Inf THEN Inf
    ELSE <<"rat", col_sum(df, col), Cardinality(df)>>

\* a < b on means; NaN sorts after everything else (na_position='last')
mean_lt(a, b) ==
    IF a[1] = "rat" /\ b[1] = "rat" THEN a[2] * b[3] < b[2] * a[3]
    ELSE IF a[1] = "rat" THEN TRUE
    ELSE a[1] = "inf" /\ b[1] = "nan"

\* df.groupby(key)[col].mean().reset_index(): one <<key, mean>> row per group
groupby_mean(df, key, col) ==
    {<<k, mean({r \in df : r[key] = k}, col)>> : k \in unique(df, key)}

\* sort_values(by=col): every ascending arrangement of the rows; the order of
\* rows with equal values is not fixed by the default (unstable) sort
RECURSIVE sort_values(_)
sort_values(table) ==
    IF table = {} THEN {<<>>}
    ELSE UNION { {<<g>> \o rest : rest \in sort_values(table \ {g})}
                 : g \in {x \in table : \A y \in table : ~mean_lt(y[2], x[2])} }

TopRoutes == 15
\* DataFrame.tail(n)
tail(table, n) == SubSeq(table, IF Len(table) > n THEN Len(table) - n + 1 ELSE 1, Len(table))

\* the table handed to px.bar for the routes of one Route_Type
route_chart_head(sorted) ==
    SubSeq(sorted, 1, IF Len(sorted) > TopRoutes THEN TopRoutes ELSE Len(sorted))
route_chart(sorted) == tail(sorted, TopRoutes)

\* ---------------------------------------------------------------- fixtures
Cost(fuel, labor, other) ==
    [Fuel_Cost |-> fuel, Labor_Cost |-> labor, Vehicle_Maintenance |-> other,
     Insurance |-> other, Packaging_Cost |-> other,
     Technology_Platform_Fee |-> other, Other_Overhead |-> other]
RouteRow(text, km) == [Route |-> text, Distance_KM |-> km]
OrderRow(day, seg, prod, value) ==
    [Order_Date |-> day, Customer_Segment |-> seg, Product_Category |-> prod,
     Order_Value_INR |-> value]
DeliveryRow(rating) == [Carrier |-> "BlueDart", Customer_Rating |-> rating]
FeedbackRow(rating) == [Rating |-> rating]

MumbaiDelhi == <<"M","u","m","b","a","i","-","D","e","l","h","i">>
MumbaiSingaporeMixed == <<"m","u","m","b","a","i","-","S","I","N","G","A","P","O","R","E">>
PuneDubai == <<"P","u","n","e","-","D","u","b","a","i">>
PuneHongKong == <<"P","u","n","e","-","H","o","n","g"," ","K","o","n","g">>
PuneHongKongNoSpace == <<"P","u","n","e","-","H","o","n","g","K","o","n","g">>
BangkokGoa == <<"B","A","N","G","K","O","K","-","G","o","a">>
SingaporGoa == <<"S","i","n","g","a","p","o","r","-","G","o","a">>

\* what the five files hold about one order: in each file no row ({}) or one row
Profile(cost, route, order, delivery, feedback) ==
    [costs |-> cost, routes |-> route, orders |-> order,
     delivery |-> delivery, feedback |-> feedback]

CostA == {Cost(Num(3), Num(1), Num(0))}
OrderA == {OrderRow(Num(1), "Retail", "Food", Num(10))}
RouteA == {RouteRow(MumbaiDelhi, Num(2))}

Profiles ==
    << \* complete rows
      Profile(CostA, RouteA, OrderA, {DeliveryRow(Num(3))}, {FeedbackRow(Num(5))}),
      Profile({Cost(Num(1), Num(1), Num(1))}, {RouteRow(MumbaiSingaporeMixed, Num(3))},
              {OrderRow(Num(2), "SME", "Tech", Num(20))},
              {DeliveryRow(NaN)}, {FeedbackRow(Num(4))}),
      Profile(CostA, {RouteRow(PuneDubai, Num(8))},
              {OrderRow(Num(3), "Retail", "Tech", Num(9))}, {DeliveryRow(Num(2))}, {}),
      Profile({Cost(Num(2), NaN, Num(0))}, {RouteRow(PuneHongKong, Num(2))},
              {OrderRow(Num(2), "SME", "Food", Num(5))},
              {DeliveryRow(Num(1))}, {FeedbackRow(Num(1))}),
      Profile(CostA, {RouteRow(PuneHongKongNoSpace, Num(2))}, OrderA,
              {DeliveryRow(Num(3))}, {FeedbackRow(NaN)}),
      Profile(CostA, {RouteRow(BangkokGoa, Num(2))}, OrderA, {}, {FeedbackRow(Num(2))}),
      Profile(CostA, {RouteRow(SingaporGoa, Num(2))}, OrderA,
              {DeliveryRow(Num(4))}, {FeedbackRow(Num(4))}),
      \* no cost row
      Profile({}, RouteA, OrderA, {DeliveryRow(Num(3))}, {FeedbackRow(Num(5))}),
      \* distance zero, distance missing, no route row, route text missing
      Profile(CostA, {RouteRow(MumbaiDelhi, Num(0))}, OrderA, {DeliveryRow(Num(3))}, {}),
      Profile(CostA, {RouteRow(MumbaiDelhi, NaN)}, OrderA, {DeliveryRow(Num(3))}, {}),
      Profile(CostA, {}, OrderA, {DeliveryRow(Num(3))}, {}),
      Profile(CostA, {RouteRow(NoText, Num(2))}, OrderA, {DeliveryRow(Num(3))}, {}),
      \* total cost zero, with and without an order value
      Profile({Cost(Num(0), Num(0), Num(0))}, RouteA, OrderA, {DeliveryRow(Num(3))}, {}),
      Profile({Cost(Num(0), Num(0), Num(0))}, RouteA,
              {OrderRow(Num(1), "Retail", "Food", Num(0))}, {DeliveryRow(Num(3))}, {}),
      \* no rating at all: cells missing, rows missing
      Profile(CostA, RouteA, OrderA, {DeliveryRow(NaN)}, {FeedbackRow(NaN)}),
      Profile(CostA, RouteA, OrderA, {}, {}),
      \* no order row, date missing, order value missing
      Profile(CostA, RouteA, {}, {DeliveryRow(Num(3))}, {}),
      Profile(CostA, RouteA, {OrderRow(NaN, "Retail", "Food", Num(10))},
              {DeliveryRow(Num(3))}, {}),
      Profile(CostA, RouteA, {OrderRow(Num(1), "Retail", "Food", NaN)},
              {DeliveryRow(Num(3))}, {}) >>

\* the rows of one file, given the profile of every order
Rows(assign, file) ==
    UNION { {[Order_ID |-> id] @@ r : r \in assign[id][file]} : id \in DOMAIN assign }

File(rows) == [status |-> "ok", rows |-> rows]
Sources(assign) == [f \in {"orders", "delivery", "routes", "costs", "feedback"}
                      |-> File(Rows(assign, f))]

\* every choice of a profile for each order; the orders are interchangeable, so
\* only the assignments with non-decreasing profile numbers are kept
Assignments ==
    {a \in [1..MaxOrders -> 1..Len(Profiles)] :
        \A i \in 1..(MaxOrders - 1) : a[i] <= a[i + 1]}
SmallInputs == {Sources([id \in 1..MaxOrders |-> Profiles[a[id]]]) : a \in Assignments}

\* route-ranking fixtures: n routes with one order each, route i costing
\* ((step * i) % 13) + 1 per km, plus a second order on routes 1 and 2; with
\* every > 0 each every-th route is international
RouteText(i, every) ==
    (IF every > 0 /\ i % every = 0 THEN <<"D","u","b","a","i","-">>
                                   ELSE <<"G","o","a","-">>) \o <<UpperCase[i]>>
RouteProfile(i, fuel, every) ==
    Profile({Cost(Num(fuel), Num(0), Num(0))}, {RouteRow(RouteText(i, every), Num(1))},
            OrderA, {DeliveryRow(Num(4))}, {})
RouteAssign(n, step, every) ==
    [id \in 1..(n + 2) |->
        IF id <= n THEN RouteProfile(id, ((step * id) % 13) + 1, every)
        ELSE RouteProfile(id - n, 6, every)]
RouteInputs ==
    {Sources(RouteAssign(n, step, every)) :
        n \in (MaxRoutes - 3)..MaxRoutes, step \in {1, 5}, every \in {0, 3, 9}}

\* inputs with unreadable files: every combination of readable, missing and corrupt
SomeRows == CHOOSE s \in SmallInputs : s.costs.rows # {}
BrokenInputs ==
    {[f \in DOMAIN SomeRows |-> IF st[f] = "ok" THEN SomeRows[f]
                                 ELSE [status |-> st[f], rows |-> {}]] :
        st \in {x \in [DOMAIN SomeRows -> {"ok", "missing", "corrupt"}] :
                   \E f \in DOMAIN SomeRows : x[f] # "ok"}}

\* -------------------------------------------------------------------- state
VARIABLES
    sources,      \* the five CSV files on disk: status and rows
    cache,        \* the st.cache_data entry of load_data
    frames,       \* the tables read by the execution of load_data that filled the cache
    status,       \* how the last run of the script ended
    notices,      \* the notices the last run put on the page
    live,         \* the sidebar widgets that hold session state
    date_range,   \* value of the date_input widget
    segment,      \* value of the Customer Segment multiselect
    route_type,   \* value of the Route Type multiselect
    product,      \* value of the Product Category multiselect
    df_filtered,  \* the working subset of the last run
    kpis,         \* the four values handed to st.metric
    charts,       \* the tables handed to the plotly figures
    figures       \* the figures the last run built

vars == <<sources, cache, frames, status, notices, live, date_range, segment,
          route_type, product, df_filtered, kpis, charts, figures>>

FileKeys == {"orders", "delivery", "routes", "costs", "feedback"}
WidgetKeys == {"date_range", "segment", "route_type", "product"}

EmptyCache == [filled |-> FALSE, value |-> {}, notices |-> <<>>]
NoFrames == [f \in FileKeys |-> {}]
NoKpis == [total_cost |-> NaN, avg_cost_order |-> NaN, avg_cost_km |-> NaN,
           avg_efficiency |-> NaN]
NoCharts == [fig1 |-> <<>>, fig3 |-> <<>>, fig4 |-> <<>>, fig5 |-> {},
             fig2a |-> <<>>, fig2b |-> <<>>]

\* @st.cache_data: the stored return value (and the elements the function drew)
\* is replayed on a hit; a call that raises stores nothing
st_cache_data_always_miss(entry, src) ==
    LET r == load_data(src)
    IN  [raised |-> r.raised, notices |-> r.notices, df |-> r.df, miss |-> TRUE,
         store |-> IF r.raised = "none"
                   THEN [filled |-> TRUE, value |-> r.df, notices |-> r.notices]
                   ELSE entry]
st_cache_data(entry, src) ==
    IF entry.filled
    THEN [raised |-> "none", notices |-> entry.notices, df |-> entry.value,
          miss |-> FALSE, store |-> entry]
    ELSE LET r == load_data(src)
         IN  [raised |-> r.raised, notices |-> r.notices, df |-> r.df, miss |-> TRUE,
              store |-> IF r.raised = "none"
                        THEN [filled |-> TRUE, value |-> r.df, notices |-> r.notices]
                        ELSE entry]

Init ==
    /\ sources \in SmallInputs \cup RouteInputs \cup BrokenInputs
    /\ cache = EmptyCache
    /\ frames = NoFrames
    /\ status = "idle"
    /\ notices = <<>>
    /\ live = {}
    /\ date_range = <<>>
    /\ segment = {}
    /\ route_type = {}
    /\ product = {}
    /\ df_filtered = {}
    /\ kpis = NoKpis
    /\ charts = NoCharts
    /\ figures = {}

\* the run leaves the script through an uncaught exception: nothing below the
\* raising line is computed, and widgets that were not reached lose their state
Aborted(exception, shown, kept, dr) ==
    /\ status' = exception
    /\ notices' = shown \o << [kind |-> "exception", filename |-> exception] >>
    /\ live' = kept
    /\ date_range' = dr
    /\ segment' = {}
    /\ route_type' = {}
    /\ product' = {}
    /\ df_filtered' = {}
    /\ kpis' = NoKpis
    /\ charts' = NoCharts
    /\ figures' = {}

\* the else branch of `if not df.empty`
LoadFailed(shown) ==
    /\ status' = "load_failed"
    /\ notices' = shown \o << [kind |-> "warning", filename |-> ""] >>
    /\ live' = {}
    /\ date_range' = <<>>
    /\ segment' = {}
    /\ route_type' = {}
    /\ product' = {}
    /\ df_filtered' = {}
    /\ kpis' = NoKpis
    /\ charts' = NoCharts
    /\ figures' = {}

cost_totals(df) == [i \in 1..Len(cost_components) |->
                       <<cost_components[i], col_sum(df, cost_components[i])>>]

\* sections 4 to 8 of the script: filter, KPIs, charts
Render(df, dr, sg, rt, pr, shown) ==
    LET f == df_filter(df, to_datetime(Num(dr[1])), to_datetime(Num(dr[2])), sg, rt, pr)
        df_domestic == {r \in f : r.Route_Type = "Domestic"}
        df_international == {r \in f : r.Route_Type = "International"}
    IN  /\ status' = "rendered"
        /\ notices' = shown
        /\ live' = WidgetKeys
        /\ date_range' = dr
        /\ segment' = sg
        /\ route_type' = rt
        /\ product' = pr
        /\ df_filtered' = f
        /\ kpis' = [total_cost |-> Num(col_sum(f, "Total_Cost")),
                    avg_cost_order |-> mean(f, "Cost_Per_Order"),
                    avg_cost_km |-> mean(f, "Cost_Per_KM"),
                    avg_efficiency |-> mean(f, "Cost_Efficiency_Ratio")]
        /\ \E product_cost \in sort_values(groupby_mean(f, "Product_Category", "Cost_Per_Order")),
              segment_efficiency \in sort_values(groupby_mean(f, "Customer_Segment",
                                                              "Cost_Efficiency_Ratio")),
              domestic_route_cost_km \in sort_values(groupby_mean(df_domestic, "Route",
                                                                  "Cost_Per_KM")),
              international_route_cost_km \in sort_values(groupby_mean(df_international,
                                                                       "Route", "Cost_Per_KM")) :
              charts' = [fig1 |-> cost_totals(f),
                         fig3 |-> product_cost,
                         fig4 |-> segment_efficiency,
                         fig5 |-> {<<r.Order_ID, r.Total_Cost, r.Final_Rating,
                                     r.Customer_Segment>> : r \in f},
                         fig2a |-> IF df_domestic # {}
                                   THEN route_chart(domestic_route_cost_km) ELSE <<>>,
                         fig2b |-> IF df_international # {}
                                   THEN route_chart(international_route_cost_km) ELSE <<>>]
        /\ figures' = {"fig1", "fig3", "fig4", "fig5"}
                      \cup (IF df_domestic # {} THEN {"fig2a"} ELSE {})
                      \cup (IF df_international # {} THEN {"fig2b"} ELSE {})

\* one run of the script, top to bottom, with the session's widget state w
Script(w) ==
    LET c == st_cache_data(cache, sources)
    IN  /\ cache' = c.store
        /\ frames' = IF c.miss /\ Unreadable(sources) = {}
                     THEN [f \in FileKeys |-> sources[f].rows] ELSE frames
        /\ UNCHANGED sources
        /\ IF c.raised # "none" THEN Aborted(c.raised, <<>>, {}, <<>>)
           ELSE IF c.df = {} THEN LoadFailed(c.notices)
           ELSE LET dr == IF "date_range" \in w.live THEN w.date_range
                          ELSE <<min_date(c.df), max_date(c.df)>>
                    sg == IF "segment" \in w.live THEN w.segment
                          ELSE unique(c.df, "Customer_Segment")
                    rt == IF "route_type" \in w.live THEN w.route_type
                          ELSE unique(c.df, "Route_Type")
                    pr == IF "product" \in w.live THEN w.product
                          ELSE unique(c.df, "Product_Category")
                IN  IF Len(dr) < 2
                    THEN Aborted("IndexError", c.notices, {"date_range"}, dr)
                    ELSE Render(c.df, dr, sg, rt, pr, c.notices)

Session == [live |-> live, date_range |-> date_range, segment |-> segment,
            route_type |-> route_type, product |-> product]

\* a browser session opens the page (or reloads it): all widgets at their defaults
NewSession == Script([Session EXCEPT !.live = {}])

\* the user completes a date range in the date_input
SetDateRange ==
    /\ "date_range" \in live
    /\ \E a \in min_date(cache.value)..max_date(cache.value) :
       \E b \in a..max_date(cache.value) :
          Script([Session EXCEPT !.date_range = <<a, b>>])

\* the user picks only the first date of a range: date_input returns a 1-tuple
PickStartDate ==
    /\ "date_range" \in live
    /\ \E a \in min_date(cache.value)..max_date(cache.value) :
          Script([Session EXCEPT !.date_range = <<a>>])

SetSegment ==
    /\ "segment" \in live
    /\ \E s \in SUBSET unique(cache.value, "Customer_Segment") :
          Script([Session EXCEPT !.segment = s])

SetRouteType ==
    /\ "route_type" \in live
    /\ \E s \in SUBSET unique(cache.value, "Route_Type") :
          Script([Session EXCEPT !.route_type = s])

SetProduct ==
    /\ "product" \in live
    /\ \E s \in SUBSET unique(cache.value, "Product_Category") :
          Script([Session EXCEPT !.product = s])

\* the CSV files disappear from the folder while the process runs
SourcesRemoved ==
    /\ Unreadable(sources) = {}
    /\ sources' = [f \in FileKeys |-> [status |-> "missing", rows |-> {}]]
    /\ UNCHANGED <<cache, frames, status, notices, live, date_range, segment,
                   route_type, product, df_filtered, kpis, charts, figures>>

Next ==
    \/ NewSession
    \/ SetDateRange
    \/ PickStartDate
    \/ SetSegment
    \/ SetRouteType
    \/ SetProduct
    \/ SourcesRemoved

Spec == Init /\ [][Next]_vars

\* =================================================================== claims
\* the master set returned by load_data and kept by the cache
Master == cache.value
\* the cost rows the load read, and the rows the other files hold for an order
CostRows == frames.costs
RowsOf(file, id) == {r \in frames[file] : r.Order_ID = id}
InMaster(id) == \E r \in Master : r.Order_ID = id
Loaded == cache.filled /\ frames # NoFrames

Populated(r) ==
    /\ r.Cost_Per_KM # NaN
    /\ r.Cost_Efficiency_Ratio # NaN
    /\ r.Final_Rating # NaN
    /\ r.Route # NoText
    /\ r.Order_Date # NaN

\* C1: every record of the master set has Cost_Per_KM, Cost_Efficiency_Ratio,
\* Final_Rating, Route and Order_Date populated, and a cost row for which one of
\* the five is missing after derivation is not in the master set.
C1_Completeness ==
    /\ \A r \in Master : Populated(r)
    /\ \A row \in merged(frames.orders, frames.delivery, frames.routes,
                         frames.costs, frames.feedback) :
          ~Populated(derive(row)) => ~InMaster(row.Order_ID)

C1_Witness ==
    /\ Loaded
    /\ Master # {}
    /\ \E c \in CostRows : ~InMaster(c.Order_ID)

\* the rating a source holds for an order, NaN when it has no row or no value
FeedbackRating(id) ==
    IF \E r \in RowsOf("feedback", id) : r.Rating # NaN
    THEN (CHOOSE r \in RowsOf("feedback", id) : r.Rating # NaN).Rating ELSE NaN
DeliveryRating(id) ==
    IF \E r \in RowsOf("delivery", id) : r.Customer_Rating # NaN
    THEN (CHOOSE r \in RowsOf("delivery", id) : r.Customer_Rating # NaN).Customer_Rating
    ELSE NaN

\* C2: Final_Rating of a master record is the Customer Feedback Rating of its
\* order when present and the Delivery Performance Customer_Rating otherwise; a
\* cost row whose order has neither rating is not in the master set.
C2_FinalRating ==
    /\ \A r \in Master :
          r.Final_Rating = IF FeedbackRating(r.Order_ID) # NaN
                           THEN FeedbackRating(r.Order_ID)
                           ELSE DeliveryRating(r.Order_ID)
    /\ \A c \in CostRows :
          (FeedbackRating(c.Order_ID) = NaN /\ DeliveryRating(c.Order_ID) = NaN)
              => ~InMaster(c.Order_ID)

C2_Witness ==
    /\ \E r \in Master : /\ FeedbackRating(r.Order_ID) # NaN
                         /\ DeliveryRating(r.Order_ID) # NaN
                         /\ FeedbackRating(r.Order_ID) # DeliveryRating(r.Order_ID)
    /\ \E c \in CostRows : /\ FeedbackRating(c.Order_ID) = NaN
                           /\ DeliveryRating(c.Order_ID) = NaN

\* C3: a cost row whose Total_Cost is zero is dropped, and no master record
\* carries an infinite Cost_Efficiency_Ratio or Cost_Per_KM into the KPIs.
C3_NoNonFiniteMetric ==
    /\ \A r \in Master : /\ r.Total_Cost # Num(0)
                         /\ r.Cost_Efficiency_Ratio # Inf
                         /\ r.Cost_Per_KM # Inf
    /\ status = "rendered" => (kpis.avg_efficiency # Inf /\ kpis.avg_cost_km # Inf)

\* the Distance_KM the routes file holds for an order, NaN when it holds none
JoinedDistance(id) ==
    IF RowsOf("routes", id) = {} THEN NaN
    ELSE (CHOOSE r \in RowsOf("routes", id) : TRUE).Distance_KM

\* C4: a cost row whose joined Distance_KM is zero or missing is not in the
\* master set, and no master record has Distance_KM = 0.
C4_NoZeroDistance ==
    /\ \A c \in CostRows :
          JoinedDistance(c.Order_ID) \in {Num(0), NaN} => ~InMaster(c.Order_ID)
    /\ \A r \in Master : r.Distance_KM # Num(0) /\ r.Cost_Per_KM # Inf

C4_Witness ==
    /\ Loaded
    /\ Master # {}
    /\ \E c \in CostRows : JoinedDistance(c.Order_ID) = Num(0)

\* the inclusion rule on calendar days
Included(r) ==
    /\ date(r.Order_Date) >= date_range[1]
    /\ date(r.Order_Date) <= date_range[2]
    /\ r.Customer_Segment \in segment
    /\ r.Route_Type \in route_type
    /\ r.Product_Category \in product

\* C5: a master record is in the working subset iff its Order_Date is within
\* the date range (both ends included) and its segment, route type and product
\* are among the chosen ones; an empty selection gives an empty working subset.
C5_FilterInclusion ==
    status = "rendered" =>
        /\ \A r \in Master : r \in df_filtered <=> Included(r)
        /\ df_filtered \subseteq Master
        /\ (segment = {} \/ route_type = {} \/ product = {}) => df_filtered = {}

C5_Witness ==
    /\ status = "rendered"
    /\ \E r \in df_filtered : date(r.Order_Date) = date_range[2]
    /\ \E r \in Master : r \notin df_filtered /\ date(r.Order_Date) > date_range[2]

\* C6: when a source is unreadable (missing or corrupt) the load fails as a
\* unit: one error names the failing source, an empty result is returned
\* without an exception, and no filter, KPI or chart is computed.
C6_LoadFailsAsUnit ==
    (status # "idle" /\ ~Loaded /\ Unreadable(sources) # {}) =>
        /\ status = "load_failed"
        /\ Master = {}
        /\ Len(SelectSeq(notices, LAMBDA n : n.kind = "error")) = 1
        /\ \E i \in 1..Len(notices) :
              notices[i] = [kind |-> "error",
                            filename |-> file_name(FirstUnreadable(sources))]
        /\ \A i \in 1..Len(notices) : notices[i].kind # "exception"
        /\ live = {} /\ df_filtered = {} /\ kpis = NoKpis /\ figures = {}

\* C7: when the working subset is empty every mean KPI reports "no data"
\* instead of NaN or zero, and no chart is built on the empty table.
C7_EmptySubsetNoData ==
    (status = "rendered" /\ df_filtered = {}) =>
        /\ kpis.avg_cost_order \notin {NaN, <<"rat", 0, 1>>}
        /\ kpis.avg_cost_km \notin {NaN, <<"rat", 0, 1>>}
        /\ kpis.avg_efficiency \notin {NaN, <<"rat", 0, 1>>}
        /\ figures = {}

\* C8: the master set is built once and never modified: every step leaves a
\* filled cache as it is, and the working subset of a run is the subset of that
\* master set picked by the widgets' current values alone.
C8_MasterBuiltOnce ==
    [][ cache.filled =>
          /\ cache' = cache
          /\ status' = "rendered" =>
                /\ df_filtered' \subseteq Master
                /\ df_filtered' = {r \in Master :
                                      /\ date(r.Order_Date) >= date_range'[1]
                                      /\ date(r.Order_Date) <= date_range'[2]
                                      /\ r.Customer_Segment \in segment'
                                      /\ r.Route_Type \in route_type'
                                      /\ r.Product_Category \in product'} ]_vars

C8_Witness ==
    /\ cache.filled
    /\ Unreadable(sources) # {}
    /\ status = "rendered"
    /\ df_filtered # {}
    /\ df_filtered # Master

\* the mean Cost_Per_KM of a route within the working subset, as <<sum, count>>
RouteRows(route) == {r \in df_filtered : r.Route = route}
RouteMean(route) == <<col_sum(RouteRows(route), "Cost_Per_KM"), Cardinality(RouteRows(route))>>
MeanLeq(a, b) == a[1] * b[2] <= b[1] * a[2]
RoutesOfType(type) == {r.Route : r \in {x \in df_filtered : x.Route_Type = type}}
Smaller(a, b) == IF a < b THEN a ELSE b

TopRouteTable(table, type) ==
    /\ Len(table) = Smaller(Cardinality(RoutesOfType(type)), 15)
    /\ \A i \in 1..Len(table) :
          /\ table[i][1] \in RoutesOfType(type)
          /\ table[i][2] = <<"rat", RouteMean(table[i][1])[1], RouteMean(table[i][1])[2]>>
    /\ \A i, j \in 1..Len(table) :
          i < j => /\ table[i][1] # table[j][1]
                   /\ MeanLeq(RouteMean(table[i][1]), RouteMean(table[j][1]))
    /\ \A out \in RoutesOfType(type) \ {table[i][1] : i \in 1..Len(table)} :
          \A i \in 1..Len(table) : MeanLeq(RouteMean(out), RouteMean(table[i][1]))

\* C9: for each Route_Type the route chart gets the per-route mean Cost_Per_KM
\* in ascending order, cut to the last 15: min(N, 15) routes of that type, the
\* ones with the highest means, and none of the other type.
C9_TopRoutes ==
    status = "rendered" =>
        /\ TopRouteTable(charts.fig2a, "Domestic")
        /\ TopRouteTable(charts.fig2b, "International")

C9_Witness ==
    /\ status = "rendered"
    /\ Cardinality(RoutesOfType("Domestic")) > 15
    /\ Len(charts.fig2a) = 15
    /\ RoutesOfType("International") # {}
    /\ \E r \in RoutesOfType("Domestic") : Cardinality(RouteRows(r)) > 1

CityNames ==
    { <<"S","i","n","g","a","p","o","r","e">>,
      <<"D","u","b","a","i">>,
      <<"H","o","n","g"," ","K","o","n","g">>,
      <<"B","a","n","g","k","o","k">> }
SameLetter(c, d) ==
    c = d \/ \E i \in 1..Len(UpperCase) : {c, d} = {UpperCase[i], LowerCase[i]}
OccursIgnoringCase(name, text) ==
    \E i \in 0..(Len(text) - Len(name)) :
        \A k \in 1..Len(name) : SameLetter(text[i + k], name[k])

\* C10: Route_Type of a master record is "International" iff its Route
\* contains, ignoring case, one of Singapore, Dubai, Hong Kong, Bangkok, and
\* "Domestic" otherwise.
C10_RouteType ==
    \A r \in Master :
        /\ r.Route_Type \in {"Domestic", "International"}
        /\ r.Route_Type = "International"
              <=> \E name \in CityNames : OccursIgnoringCase(name, r.Route)

C10_Witness ==
    /\ \E r \in Master : /\ r.Route_Type = "International"
                         /\ ~contains_case_sensitive(r.Route, pattern, FALSE)
    /\ \E r \in Master : r.Route_Type = "Domestic"

====
